---- MODULE Spec2Model ----
(***************************************************************************)
(* Model of the rekognizer service: the enroll_user RPC and the /verify    *)
(* and /identify HTTP entrypoints (src/rekognizer/service.py), the         *)
(* similarity test (src/rekognizer/facenet.py) and the HTTP error mapping  *)
(* (src/rekognizer/entrypoints.py).                                        *)
(*                                                                         *)
(* Each entrypoint runs synchronously from start to finish in one worker,  *)
(* so each is one action.  The order of the collaborator calls a handler   *)
(* makes is kept in the variable `calls`, the log of the last handler run. *)
(***************************************************************************)
EXTENDS Integers, Sequences, FiniteSets, TLC

VARIABLES
    store,      \* the enrollment table, in retrieval order
    op,         \* the handler that ran last
    arg_urls,   \* its image_urls (identify: the one image_url)
    arg_user,   \* enroll_user's user_id (0 otherwise)
    result,     \* the list _verify returned
    user,       \* the user _identify returned
    raised,     \* the exception the handler ended with, or NoExc
    response,   \* the HTTP response of the last HTTP handler
    calls,      \* the collaborator calls of the last handler, in order
    fn_arg,     \* the argument of the last pure function applied on its own
    fn_ret      \* what it returned

vars == <<store, op, arg_urls, arg_user, result, user, raised, response, calls,
          fn_arg, fn_ret>>

----------------------------------------------------------------------------
(* Bounds of the model.                                                    *)

MaxUrls == 3          \* longest image_urls list of a /verify request
MaxEnrollUrls == 2    \* longest image_urls list of an enroll_user call
MaxStore == 3         \* most rows the enrollment table holds
MaxBatch == 3         \* most embeddings of a batch given to get_similarities alone
MaxSide == 2          \* longest side of a raster given to the crop alone, in pixels

----------------------------------------------------------------------------
(* The world outside the service: what each URL serves.  An embedding is a *)
(* point with integer coordinates in tenths, so 8 stands for 0.8.          *)

Urls == {"none", "two", "bad", "a1", "a2", "b1"}

\* requests.get + cv2.imdecode: "bad" serves bytes that do not decode, so
\* imdecode returns None and the RGB slice raises TypeError.
Load(url) == IF url = "bad" THEN "TypeError" ELSE "ok"

\* len(FaceDetector.detect_faces(image))
FaceCount(url) ==
    CASE url = "none" -> 0
      [] url = "two"  -> 2
      [] OTHER        -> 1

\* The embedding the inference service computes for the face of a URL.  a2 is
\* at distance 0.5 of a1 and 0.64 of b1; b1 is at distance 0.8, the threshold
\* itself, of a1.
Emb(url) ==
    CASE url = "a1" -> <<0, 0>>
      [] url = "a2" -> <<3, 4>>
      [] url = "b1" -> <<8, 0>>
      [] OTHER      -> <<0, 0>>

Users == {1, 2}

----------------------------------------------------------------------------
(* Values.                                                                 *)

NoExc == [type |-> "", msg |-> ""]
Exc(t, m) == [type |-> t, msg |-> m]

NoUser == [id |-> 0, is_activated |-> FALSE]
NoResponse == [status |-> 0, error |-> "", message |-> ""]

Call(o, us, n, r) == [op |-> o, urls |-> us, n |-> n, res |-> r]

----------------------------------------------------------------------------
(* facenet.py                                                              *)

\* THRESHOLD = 0.8, in tenths.
THRESHOLD == 8

\* np.sum(np.square(np.subtract(reference_embedding, embedding)))
SumSquares(a, b) ==
    (a[1] - b[1]) * (a[1] - b[1]) + (a[2] - b[2]) * (a[2] - b[2])

\* bool(dist < THRESHOLD) with dist = np.sqrt(SumSquares): the square root of
\* a non-negative number is below THRESHOLD exactly when the number is below
\* THRESHOLD squared.
DistBelowThreshold(a, b) == SumSquares(a, b) < THRESHOLD * THRESHOLD

\* Facenet.get_embeddings: one vector per input tensor, in order.  A face
\* tensor is named by the URL of the image it was cropped from.
get_embeddings(images) == [i \in 1..Len(images) |-> Emb(images[i])]

\* get_similarities comparing each embedding with the one before it instead
\* of with the reference.
get_similarities_previous(embeddings) ==
    <<TRUE>> \o
    (IF Len(embeddings) > 1
        THEN [i \in 1..(Len(embeddings) - 1) |->
                 DistBelowThreshold(embeddings[i], embeddings[i + 1])]
        ELSE <<>>)

\* get_similarities declaring a match at the threshold too (dist <= THRESHOLD).
get_similarities_inclusive(embeddings) ==
    <<TRUE>> \o
    (IF Len(embeddings) > 1
        THEN [i \in 1..(Len(embeddings) - 1) |->
                 SumSquares(embeddings[1], embeddings[i + 1]) <= THRESHOLD * THRESHOLD]
        ELSE <<>>)

\* Facenet.get_similarities
get_similarities(embeddings) ==
    <<TRUE>> \o
    (IF Len(embeddings) > 1
        THEN [i \in 1..(Len(embeddings) - 1) |->
                 DistBelowThreshold(embeddings[1], embeddings[i + 1])]
        ELSE <<>>)

----------------------------------------------------------------------------
(* service.py: the crop of the detected face (lines 50-53, 133-136 and     *)
(* 177-180).  The URLs of the world above serve images whose face box lies *)
(* inside the raster, where the crop is the box.                           *)

\* A bound of a Python slice on an axis of length n: a negative bound counts
\* from the end, and a bound outside the axis is clipped to it.
SliceBound(n, i) ==
    IF i < 0 THEN (IF i + n < 0 THEN 0 ELSE i + n)
    ELSE IF i > n THEN n ELSE i

\* image[y : y + height, x : x + width]: the rows and columns taken, each a
\* half-open range <<first, end>>.
Crop(shape, box) ==
    [rows |-> <<SliceBound(shape.height, box.y),
                SliceBound(shape.height, box.y + box.height)>>,
     cols |-> <<SliceBound(shape.width, box.x),
                SliceBound(shape.width, box.x + box.width)>>]

\* cv2.resize(cropped_image_face, (160, 160)) raises on a crop without
\* pixels; normalize_image then yields the tensor of any other crop.
Prepare(shape, box) ==
    LET c == Crop(shape, box)
    IN  IF c.rows[2] <= c.rows[1] \/ c.cols[2] <= c.cols[1]
          THEN [outcome |-> "cv2.error", crop |-> c]
          ELSE [outcome |-> "tensor", crop |-> c]

----------------------------------------------------------------------------
(* service.py: RekognizerHttpService._verify                               *)

Outcome(url, valid, error) == [image_url |-> url, valid |-> valid, error |-> error]

\* One pass of the for loop over image_urls (lines 113-138).  st carries the
\* locals result and valid_images, the call log, and the exception that left
\* the loop, if any.
VerifyIter(st, image_url) ==
    LET c1 == Append(st.calls, Call("read_image", <<image_url>>, 0, Load(image_url)))
        faces_len == FaceCount(image_url)
        c2 == Append(c1, Call("detect_faces", <<image_url>>, faces_len, "ok"))
    IN  IF Load(image_url) # "ok"
          THEN [st EXCEPT !.calls = c1,
                          !.exc = Exc(Load(image_url), image_url)]
        ELSE IF faces_len = 0
          THEN [st EXCEPT !.calls = c2,
                          !.result = Append(@, Outcome(image_url, FALSE, "NO_FACE"))]
        ELSE IF faces_len > 1
          THEN [st EXCEPT !.calls = c2,
                          !.result = Append(@, Outcome(image_url, FALSE, "TOO_MANY_FACES"))]
        ELSE [st EXCEPT !.calls = c2,
                        !.valid_images = Append(@, [image_url |-> image_url,
                                                    face |-> image_url])]

RECURSIVE VerifyLoop(_, _, _)
VerifyLoop(image_urls, i, st) ==
    IF i > Len(image_urls) \/ st.exc # NoExc
      THEN st
      ELSE VerifyLoop(image_urls, i + 1, VerifyIter(st, image_urls[i]))

\* Lines 140-157: one embedding call for all valid images, then one outcome
\* per valid image appended to result.
VerifyCompare(st) ==
    IF Len(st.valid_images) > 0
      THEN LET faces == [k \in 1..Len(st.valid_images) |-> st.valid_images[k].face]
               embeddings == get_embeddings(faces)
               similarities == get_similarities(embeddings)
               outcomes ==
                   [k \in 1..Len(st.valid_images) |->
                       IF ~similarities[k]
                         THEN Outcome(st.valid_images[k].image_url, FALSE, "NOT_SAME_PERSON")
                         ELSE Outcome(st.valid_images[k].image_url, TRUE, "")]
           IN  [st EXCEPT
                  !.calls = @ \o <<Call("get_embeddings", faces, Len(faces), "ok"),
                                   Call("get_similarities", faces, Len(embeddings), "ok")>>,
                  !.result = @ \o outcomes]
      ELSE st

\* _verify(image_urls): [result, valid_images, calls, exc]; exc # NoExc means
\* the call raised and returned nothing.
_verify(image_urls) ==
    LET st0 == [result |-> <<>>, valid_images |-> <<>>, calls |-> <<>>, exc |-> NoExc]
        st1 == VerifyLoop(image_urls, 1, st0)
    IN  IF st1.exc # NoExc THEN st1 ELSE VerifyCompare(st1)

----------------------------------------------------------------------------
(* service.py: RekognizerHttpService._identify                             *)

\* What the user_manager RPC does for a get_user call, and what the event
\* dispatcher does for a dispatch call: both are outside the service.
GetUserOutcomes == {"activated", "disabled", "ValueError", "RemoteError"}
DispatchOutcomes == {"ok", "ValueError", "RemoteError"}

\* The exception classes an `except ValueError` clause catches.  The classes
\* of rekognizer.exceptions are failure kinds of their own.
ValueErrorClasses == {"ValueError"}

\* index taking the last position holding True.
index_last(similarities) ==
    IF \E k \in 1..Len(similarities) : similarities[k]
      THEN CHOOSE k \in 1..Len(similarities) :
               /\ similarities[k]
               /\ \A j \in (k + 1)..Len(similarities) : ~similarities[j]
      ELSE 0

\* similarities.index(True): the first position holding True, 0 standing for
\* the ValueError list.index raises when there is none.
index(similarities) ==
    IF \E k \in 1..Len(similarities) : similarities[k]
      THEN CHOOSE k \in 1..Len(similarities) :
               /\ similarities[k]
               /\ \A j \in 1..(k - 1) : ~similarities[j]
      ELSE 0

Ret(u, e, c) == [user |-> u, exc |-> e, calls |-> c]

\* IdentifyTry without the is_activated test of lines 203-204.
IdentifyTry_no_status_test(enrollments, similarities, get_user, dispatch, c0) ==
    LET idx == index(similarities)
    IN  IF idx = 0
          THEN Ret(NoUser, Exc("ValueError", "True is not in list"), c0)
          ELSE
            LET uid == enrollments[idx].user_id
                c1 == Append(c0, Call("get_user", <<>>, uid, get_user))
                u == [id |-> uid, is_activated |-> (get_user = "activated")]
                c2 == Append(c1, Call("dispatch", <<>>, uid, dispatch))
            IN  IF get_user \notin {"activated", "disabled"}
                  THEN Ret(NoUser, Exc(get_user, "get_user"), c1)
                ELSE IF dispatch # "ok"
                  THEN Ret(NoUser, Exc(dispatch, "dispatch"), c2)
                ELSE Ret(u, NoExc, c2)

\* IdentifyTry dispatching the event before the is_activated test.
IdentifyTry_dispatch_first(enrollments, similarities, get_user, dispatch, c0) ==
    LET idx == index(similarities)
    IN  IF idx = 0
          THEN Ret(NoUser, Exc("ValueError", "True is not in list"), c0)
          ELSE
            LET uid == enrollments[idx].user_id
                c1 == Append(c0, Call("get_user", <<>>, uid, get_user))
                u == [id |-> uid, is_activated |-> (get_user = "activated")]
                c2 == Append(c1, Call("dispatch", <<>>, uid, dispatch))
            IN  IF get_user \notin {"activated", "disabled"}
                  THEN Ret(NoUser, Exc(get_user, "get_user"), c1)
                ELSE IF dispatch # "ok"
                  THEN Ret(NoUser, Exc(dispatch, "dispatch"), c2)
                ELSE IF u.is_activated = FALSE
                  THEN Ret(NoUser, Exc("UserDisabledException", "User is disabled"), c2)
                ELSE Ret(u, NoExc, c2)

\* Lines 199-208, the body of the try block.
IdentifyTry(enrollments, similarities, get_user, dispatch, c0) ==
    LET idx == index(similarities)
    IN  IF idx = 0
          THEN Ret(NoUser, Exc("ValueError", "True is not in list"), c0)
          ELSE
            LET uid == enrollments[idx].user_id
                c1 == Append(c0, Call("get_user", <<>>, uid, get_user))
                u == [id |-> uid, is_activated |-> (get_user = "activated")]
                c2 == Append(c1, Call("dispatch", <<>>, uid, dispatch))
            IN  IF get_user \notin {"activated", "disabled"}
                  THEN Ret(NoUser, Exc(get_user, "get_user"), c1)
                ELSE IF u.is_activated = FALSE
                  THEN Ret(NoUser, Exc("UserDisabledException", "User is disabled"), c1)
                ELSE IF dispatch # "ok"
                  THEN Ret(NoUser, Exc(dispatch, "dispatch"), c2)
                ELSE Ret(u, NoExc, c2)

\* IdentifyMatch without the len(enrollments) == 0 test of lines 188-189.
IdentifyMatch_no_empty_test(image_url, enrollments, get_user, dispatch, c0) ==
    LET embedding == get_embeddings(<<image_url>>)[1]
        c1 == c0 \o <<Call("get_embeddings", <<image_url>>, 1, "ok"),
                      Call("query_all", <<>>, Len(enrollments), "ok")>>
        embeddings == <<embedding>> \o
                          [k \in 1..Len(enrollments) |-> enrollments[k].embedding]
        similarities == Tail(get_similarities(embeddings))
        c2 == Append(c1, Call("get_similarities", <<>>, Len(embeddings), "ok"))
        t == IdentifyTry(enrollments, similarities, get_user, dispatch, c2)
    IN  IF t.exc.type \in ValueErrorClasses
          THEN Ret(NoUser, Exc("UnknownPersonException", "Image has not been identified"),
                   t.calls)
        ELSE t

\* Lines 183-210: embed the face, scan the table, compare, resolve the user.
IdentifyMatch(image_url, enrollments, get_user, dispatch, c0) ==
    LET embedding == get_embeddings(<<image_url>>)[1]
        c1 == c0 \o <<Call("get_embeddings", <<image_url>>, 1, "ok"),
                      Call("query_all", <<>>, Len(enrollments), "ok")>>
        embeddings == <<embedding>> \o
                          [k \in 1..Len(enrollments) |-> enrollments[k].embedding]
        similarities == Tail(get_similarities(embeddings))
        c2 == Append(c1, Call("get_similarities", <<>>, Len(embeddings), "ok"))
        t == IdentifyTry(enrollments, similarities, get_user, dispatch, c2)
    IN  IF Len(enrollments) = 0
          THEN Ret(NoUser, Exc("UnknownPersonException", "Image has not been identified"), c1)
        ELSE IF t.exc.type \in ValueErrorClasses
          THEN Ret(NoUser, Exc("UnknownPersonException", "Image has not been identified"),
                   t.calls)
        ELSE t

\* _identify testing faces_len > 2 where line 174 tests faces_len > 1.
_identify_two_faces_pass(image_url, enrollments, get_user, dispatch) ==
    LET c1 == <<Call("read_image", <<image_url>>, 0, Load(image_url))>>
        faces_len == FaceCount(image_url)
        c2 == Append(c1, Call("detect_faces", <<image_url>>, faces_len, "ok"))
    IN  IF Load(image_url) # "ok"
          THEN Ret(NoUser, Exc(Load(image_url), image_url), c1)
        ELSE IF faces_len = 0
          THEN Ret(NoUser, Exc("NoFaceException", "Image doesn't contains face"), c2)
        ELSE IF faces_len > 2
          THEN Ret(NoUser, Exc("TooManyFacesException", "Image contains too many faces"), c2)
        ELSE IdentifyMatch(image_url, enrollments, get_user, dispatch, c2)

\* _identify(image_url) against the table `enrollments`: [user, exc, calls].
_identify(image_url, enrollments, get_user, dispatch) ==
    LET c1 == <<Call("read_image", <<image_url>>, 0, Load(image_url))>>
        faces_len == FaceCount(image_url)
        c2 == Append(c1, Call("detect_faces", <<image_url>>, faces_len, "ok"))
    IN  IF Load(image_url) # "ok"
          THEN Ret(NoUser, Exc(Load(image_url), image_url), c1)
        ELSE IF faces_len = 0
          THEN Ret(NoUser, Exc("NoFaceException", "Image doesn't contains face"), c2)
        ELSE IF faces_len > 1
          THEN Ret(NoUser, Exc("TooManyFacesException", "Image contains too many faces"), c2)
        ELSE IdentifyMatch(image_url, enrollments, get_user, dispatch, c2)

----------------------------------------------------------------------------
(* entrypoints.py: CorsHttpRequestHandler                                  *)

mapped_errors ==
    [BadRequest             |-> <<400, "BAD_REQUEST">>,
     ValidationError        |-> <<400, "VALIDATION_ERROR">>,
     NoFaceException        |-> <<400, "NO_FACE">>,
     TooManyFacesException  |-> <<400, "TOO_MANY_FACE">>,
     UnknownPersonException |-> <<400, "UNKNOWN_PERSON">>]

Response(status, error, message) ==
    [status |-> status, error |-> error, message |-> message]

\* response_from_exception(exc) of a handler declared with expected_exceptions
response_from_exception(exc, expected_exceptions) ==
    LET code == IF exc.type \in expected_exceptions
                  THEN IF exc.type \in DOMAIN mapped_errors
                         THEN mapped_errors[exc.type]
                         ELSE <<400, "BAD_REQUEST">>
                  ELSE <<500, "UNEXPECTED_ERROR">>
    IN  Response(code[1], code[2], exc.msg)

\* expected_exceptions of @http("POST", "/verify") and @http("POST", "/identify")
VerifyExpected == {"ValidationError", "BadRequest"}
IdentifyExpected ==
    {"ValidationError", "BadRequest", "NoFaceException", "TooManyFacesException",
     "UnknownPersonException", "UserDisabledException"}

\* schema.loads(request.get_data()) in the try of verify and identify: the
\* exception the handler raises for a request body, NoExc for a body the
\* schema accepts.
Bodies == {"ok", "bad_json", "bad_schema"}
LoadRequest(body) ==
    CASE body = "bad_json"   -> Exc("BadRequest", "Invalid json")
      [] body = "bad_schema" -> Exc("ValidationError", "Not a valid URL")
      [] OTHER               -> NoExc

----------------------------------------------------------------------------
(* service.py: RekognizerService.enroll_user                               *)

Enrollment(embedding, user_id) == [user_id |-> user_id, embedding |-> embedding]

\* EnrollIter putting the new row in front of the table.
EnrollIter_prepend(st, user_id, image_url) ==
    LET c1 == Append(st.calls, Call("read_image", <<image_url>>, 0, Load(image_url)))
        faces_len == FaceCount(image_url)
        c2 == Append(c1, Call("detect_faces", <<image_url>>, faces_len, "ok"))
        embedding == get_embeddings(<<image_url>>)[1]
        c3 == c2 \o <<Call("get_embeddings", <<image_url>>, 1, "ok"),
                      Call("session_add", <<image_url>>, user_id, "commit")>>
    IN  IF Load(image_url) # "ok"
          THEN [st EXCEPT !.calls = c1, !.exc = Exc(Load(image_url), image_url)]
        ELSE IF faces_len = 0
          THEN [st EXCEPT !.calls = c2,
                          !.exc = Exc("NoFaceException", "Image doesn't contains face")]
        ELSE IF faces_len > 1
          THEN [st EXCEPT !.calls = c2,
                          !.exc = Exc("TooManyFacesException", "Image contains too many faces")]
        ELSE [st EXCEPT !.calls = c3,
                        !.store = <<[user_id |-> user_id, embedding |-> embedding]>> \o @]

\* One pass of the for loop (lines 35-60).  The `with self.db.get_session()`
\* block commits the added row when it is left, once per image.
EnrollIter(st, user_id, image_url) ==
    LET c1 == Append(st.calls, Call("read_image", <<image_url>>, 0, Load(image_url)))
        faces_len == FaceCount(image_url)
        c2 == Append(c1, Call("detect_faces", <<image_url>>, faces_len, "ok"))
        embedding == get_embeddings(<<image_url>>)[1]
        c3 == c2 \o <<Call("get_embeddings", <<image_url>>, 1, "ok"),
                      Call("session_add", <<image_url>>, user_id, "commit")>>
    IN  IF Load(image_url) # "ok"
          THEN [st EXCEPT !.calls = c1, !.exc = Exc(Load(image_url), image_url)]
        ELSE IF faces_len = 0
          THEN [st EXCEPT !.calls = c2,
                          !.exc = Exc("NoFaceException", "Image doesn't contains face")]
        ELSE IF faces_len > 1
          THEN [st EXCEPT !.calls = c2,
                          !.exc = Exc("TooManyFacesException", "Image contains too many faces")]
        ELSE [st EXCEPT !.calls = c3,
                        !.store = Append(@, Enrollment(embedding, user_id))]

\* The loop going on to the next URLs after a rejected one, and raising the
\* first rejection at the end.
RECURSIVE EnrollLoop_best_effort(_, _, _, _)
EnrollLoop_best_effort(user_id, image_urls, i, st) ==
    IF i > Len(image_urls)
      THEN st
      ELSE LET nx == EnrollIter(st, user_id, image_urls[i])
           IN  EnrollLoop_best_effort(user_id, image_urls, i + 1,
                   IF st.exc # NoExc THEN [nx EXCEPT !.exc = st.exc] ELSE nx)

RECURSIVE EnrollLoop(_, _, _, _)
EnrollLoop(user_id, image_urls, i, st) ==
    IF i > Len(image_urls) \/ st.exc # NoExc
      THEN st
      ELSE EnrollLoop(user_id, image_urls, i + 1, EnrollIter(st, user_id, image_urls[i]))

\* enroll_user(user_id, image_urls) on the table `enrollments`:
\* [store, calls, exc]
enroll_user_call(user_id, image_urls, enrollments) ==
    EnrollLoop(user_id, image_urls, 1,
               [store |-> enrollments, calls |-> <<>>, exc |-> NoExc])

----------------------------------------------------------------------------
(* The state machine.                                                      *)

SeqsUpTo(S, n) == UNION {[1..k -> S] : k \in 0..n}

Init ==
    /\ store = <<>>
    /\ op = "init"
    /\ arg_urls = <<>>
    /\ arg_user = 0
    /\ result = <<>>
    /\ user = NoUser
    /\ raised = NoExc
    /\ response = NoResponse
    /\ calls = <<>>
    /\ fn_arg = <<>>
    /\ fn_ret = <<>>

\* The handler's end: what it returned or raised, and the HTTP response the
\* request handler makes of it.
Finish(name, image_urls, user_id, r, expected_exceptions) ==
    /\ op' = name
    /\ arg_urls' = image_urls
    /\ arg_user' = user_id
    /\ result' = IF r.exc # NoExc THEN <<>> ELSE r.result
    /\ user' = IF r.exc # NoExc THEN NoUser ELSE r.user
    /\ raised' = r.exc
    /\ response' =
          IF name = "enroll_user" THEN NoResponse
          ELSE IF r.exc # NoExc THEN response_from_exception(r.exc, expected_exceptions)
          ELSE Response(200, "", "")
    /\ calls' = r.calls
    /\ store' = r.store
    /\ UNCHANGED <<fn_arg, fn_ret>>

Raise(exc, enrollments) ==
    [result |-> <<>>, user |-> NoUser, exc |-> exc, calls |-> <<>>, store |-> enrollments]

\* POST /verify (lines 70-81)
VerifyHandler(request, enrollments) ==
    IF LoadRequest(request.body) # NoExc
      THEN Raise(LoadRequest(request.body), enrollments)
      ELSE LET v == _verify(request.image_urls)
           IN  [result |-> v.result, user |-> NoUser, exc |-> v.exc,
                calls |-> v.calls, store |-> enrollments]

verify(request) ==
    Finish("verify", request.image_urls, 0, VerifyHandler(request, store), VerifyExpected)

\* POST /identify (lines 83-105)
IdentifyHandler(request, enrollments, get_user, dispatch) ==
    IF LoadRequest(request.body) # NoExc
      THEN Raise(LoadRequest(request.body), enrollments)
      ELSE LET r == _identify(request.image_urls[1], enrollments, get_user, dispatch)
           IN  [result |-> <<>>, user |-> r.user, exc |-> r.exc,
                calls |-> r.calls, store |-> enrollments]

identify(request, get_user, dispatch) ==
    Finish("identify", request.image_urls, 0,
           IdentifyHandler(request, store, get_user, dispatch), IdentifyExpected)

\* rpc enroll_user (lines 33-60)
EnrollHandler(user_id, image_urls, enrollments) ==
    LET e == enroll_user_call(user_id, image_urls, enrollments)
    IN  [result |-> <<>>, user |-> NoUser, exc |-> e.exc,
         calls |-> e.calls, store |-> e.store]

enroll_user(user_id, image_urls) ==
    /\ Len(store) + Len(image_urls) <= MaxStore
    /\ Finish("enroll_user", image_urls, user_id,
              EnrollHandler(user_id, image_urls, store), {})

\* The request bodies: one the schema accepts for each list of URLs, and the
\* two kinds it refuses, which carry no URL the handler gets to see.
Requests(url_lists) ==
    {[body |-> "ok", image_urls |-> us] : us \in url_lists}
        \cup {[body |-> b, image_urls |-> <<>>] : b \in Bodies \ {"ok"}}

Verify ==
    \E request \in Requests(SeqsUpTo(Urls, MaxUrls)) : verify(request)

Identify ==
    \E request \in Requests([1..1 -> Urls]),
       get_user \in GetUserOutcomes, dispatch \in DispatchOutcomes :
        identify(request, get_user, dispatch)

EnrollUser ==
    \E user_id \in Users, image_urls \in SeqsUpTo(Urls, MaxEnrollUrls) :
        enroll_user(user_id, image_urls)

Next == Verify \/ Identify \/ EnrollUser

Spec == Init /\ [][Next]_vars

\* /verify alone: it neither reads nor writes the table.
SpecVerify == Init /\ [][Verify]_vars

\* enroll_user and /identify on the table, without /verify.
NextTable == EnrollUser \/ Identify
SpecTable == Init /\ [][NextTable]_vars

\* One call of any entrypoint on any table enroll_user calls can have built:
\* an entrypoint reads nothing of an earlier call but the table.
Rows == {Enrollment(Emb(url), user_id) :
            url \in {u \in Urls : Load(u) = "ok" /\ FaceCount(u) = 1}, user_id \in Users}

InitTable ==
    /\ store \in SeqsUpTo(Rows, MaxStore)
    /\ op = "init"
    /\ arg_urls = <<>>
    /\ arg_user = 0
    /\ result = <<>>
    /\ user = NoUser
    /\ raised = NoExc
    /\ response = NoResponse
    /\ calls = <<>>
    /\ fn_arg = <<>>
    /\ fn_ret = <<>>

NextCall == op = "init" /\ Next
SpecCall == InitTable /\ [][NextCall]_vars

----------------------------------------------------------------------------
(* Pure functions applied on their own.                                    *)

Applied(name, arg, ret) ==
    /\ op' = name
    /\ fn_arg' = arg
    /\ fn_ret' = ret
    /\ UNCHANGED <<store, arg_urls, arg_user, result, user, raised, response, calls>>

\* Embeddings at distances 0.5, 0.8 (the threshold), 0.9 and about 0.78 of
\* <<0, 0>>.
Points == {<<0, 0>>, <<3, 4>>, <<8, 0>>, <<0, 9>>, <<6, 5>>}

\* A comparison batch is never empty: _verify compares only when it has a
\* valid image (line 140), _identify puts the query in front (line 193).
Batches == SeqsUpTo(Points, MaxBatch) \ {<<>>}

GetSimilarities ==
    \E embeddings \in Batches :
        Applied("get_similarities", embeddings, get_similarities(embeddings))

\* The rasters, and the boxes the detector may return for them: MTCNN boxes
\* can start before the raster or end past it.
Shapes == [height : 1..MaxSide, width : 1..MaxSide]
Boxes == [x : (-MaxSide)..MaxSide, y : (-MaxSide)..MaxSide,
          width : 0..MaxSide, height : 0..MaxSide]

\* The crop of a face applied once to a raster and a box drawn at the start.
InitPrepare ==
    /\ store = <<>>
    /\ op = "init"
    /\ arg_urls = <<>>
    /\ arg_user = 0
    /\ result = <<>>
    /\ user = NoUser
    /\ raised = NoExc
    /\ response = NoResponse
    /\ calls = <<>>
    /\ fn_arg \in [shape : Shapes, box : Boxes]
    /\ fn_ret = <<>>

PrepareFace ==
    /\ op = "init"
    /\ Applied("prepare", fn_arg, Prepare(fn_arg.shape, fn_arg.box))

SpecPrepare == InitPrepare /\ [][PrepareFace]_vars

SpecSimilarity == Init /\ [][GetSimilarities]_vars

----------------------------------------------------------------------------
(* Properties of /verify, checked under SpecVerify.                        *)

\* The last handler was _verify and it returned (a refused body never
\* reaches _verify).
VerifyReturned == op = "verify" /\ raised = NoExc

OneFaceIndexes(us) == {i \in 1..Len(us) : FaceCount(us[i]) = 1}

\* The first image of the request with exactly one face.
FirstOneFace(us) ==
    us[CHOOSE i \in OneFaceIndexes(us) : \A j \in OneFaceIndexes(us) : i <= j]

Count(seq, x) == Cardinality({i \in 1..Len(seq) : seq[i] = x})
ResultUrls == [k \in 1..Len(result) |-> result[k].image_url]

\* C1: _verify returns one entry per input URL, the i-th entry being that of
\* the i-th input URL.
C1_InputOrderPreserved ==
    VerifyReturned =>
        /\ Len(result) = Len(arg_urls)
        /\ \A i \in 1..Len(arg_urls) : result[i].image_url = arg_urls[i]

\* The outcome the claim C2 prescribes for an image of the request.
ExpectedError(url, us) ==
    IF FaceCount(url) = 0 THEN "NO_FACE"
    ELSE IF FaceCount(url) > 1 THEN "TOO_MANY_FACES"
    ELSE IF url = FirstOneFace(us)
            \/ DistBelowThreshold(Emb(FirstOneFace(us)), Emb(url)) THEN ""
    ELSE "NOT_SAME_PERSON"

\* C2: every input URL gets an outcome, and the outcome of a URL is NO_FACE
\* iff it shows no face, TOO_MANY_FACES iff it shows several, and otherwise
\* valid iff it is the first one-face image or within the threshold of it,
\* else NOT_SAME_PERSON.
C2_OutcomePerImage ==
    VerifyReturned =>
        /\ \A u \in Urls : Count(ResultUrls, u) = Count(arg_urls, u)
        /\ \A k \in 1..Len(result) :
              /\ result[k].error = ExpectedError(result[k].image_url, arg_urls)
              /\ result[k].valid <=> (result[k].error = "")

\* A request with a rejected image, the reference image and an image of
\* another person.
C2_Witness ==
    /\ VerifyReturned
    /\ \E i, j, k \in 1..Len(result) :
          /\ result[i].error = "NO_FACE"
          /\ result[j].valid
          /\ result[k].error = "NOT_SAME_PERSON"

\* C3: an image that fails to load is a per-image failure: the request still
\* returns one outcome for every input URL.
C3_LoadFailureIsLocal ==
    (op = "verify" /\ \E i \in 1..Len(arg_urls) : Load(arg_urls[i]) # "ok") =>
        /\ raised = NoExc
        /\ Len(result) = Len(arg_urls)

----------------------------------------------------------------------------
(* Properties of /identify and enroll_user, checked under SpecTable.       *)

\* The last handler was _identify (the body was accepted), on this URL.
IdentifyRan == op = "identify" /\ Len(arg_urls) = 1
Query == arg_urls[1]
FaceFound == Load(Query) = "ok" /\ FaceCount(Query) = 1

\* Row k of the table is within the threshold of the query face.
Matches(k) == DistBelowThreshold(Emb(Query), store[k].embedding)
FirstMatch(k) ==
    /\ k \in 1..Len(store)
    /\ Matches(k)
    /\ \A j \in 1..(k - 1) : ~Matches(j)

Called(o) == {i \in 1..Len(calls) : calls[i].op = o}

\* C4: the user looked up, and returned, is the one of the first matching
\* row in retrieval order.
C4_FirstMatch ==
    (IdentifyRan /\ FaceFound /\ \E k \in 1..Len(store) : Matches(k)) =>
        /\ Cardinality(Called("get_user")) = 1
        /\ \A i \in Called("get_user") :
              \E k \in 1..Len(store) : FirstMatch(k) /\ calls[i].n = store[k].user_id
        /\ user # NoUser =>
              \E k \in 1..Len(store) : FirstMatch(k) /\ user.id = store[k].user_id

\* Rows [A, B, C] with A and C matching, B not, A and C of different users:
\* A's user is returned.
C4_Witness ==
    /\ IdentifyRan
    /\ Len(store) = 3
    /\ Matches(1) /\ ~Matches(2) /\ Matches(3)
    /\ store[1].user_id # store[3].user_id
    /\ user # NoUser
    /\ user.id = store[1].user_id

\* C5: with an empty table, _identify of any face fails UnknownPerson without
\* comparing, looking the user up or dispatching.
C5_EmptyStore ==
    (IdentifyRan /\ FaceFound /\ store = <<>>) =>
        /\ raised.type = "UnknownPersonException"
        /\ Called("get_similarities") = {}
        /\ Called("get_user") = {}
        /\ Called("dispatch") = {}

C5_Witness ==
    /\ IdentifyRan /\ FaceFound /\ store = <<>>
    /\ Query = "b1"
    /\ Called("query_all") # {}

\* C6: when the first matching row's user is disabled, _identify fails
\* UserDisabled; the lookup comes after the comparison and is not made when
\* no row matches.
C6_UserDisabled ==
    (IdentifyRan /\ FaceFound) =>
        /\ (\E k \in 1..Len(store) : Matches(k)) =>
              \E i \in Called("get_user") :
                  /\ \E k \in 1..Len(store) :
                        FirstMatch(k) /\ calls[i].n = store[k].user_id
                  /\ calls[i].res = "disabled" =>
                        raised.type = "UserDisabledException"
        /\ \A i \in Called("get_user") :
              \E j \in Called("get_similarities") : j < i
        /\ (\A k \in 1..Len(store) : ~Matches(k)) => Called("get_user") = {}

C6_Witness ==
    /\ IdentifyRan /\ FaceFound
    /\ \E k \in 1..Len(store) : Matches(k)
    /\ \E i \in Called("get_user") : calls[i].res = "disabled"
    /\ raised.type = "UserDisabledException"

AfterDetection == {"get_embeddings", "query_all", "get_similarities", "get_user", "dispatch"}

\* C7: no face fails NoFace, several faces fail TooManyFaces, and neither
\* makes an embedding call, a table scan, a user lookup or a dispatch.
C7_FaceCountFirst ==
    (IdentifyRan /\ Load(Query) = "ok" /\ FaceCount(Query) # 1) =>
        /\ FaceCount(Query) = 0 => raised.type = "NoFaceException"
        /\ FaceCount(Query) > 1 => raised.type = "TooManyFacesException"
        /\ \A i \in 1..Len(calls) : calls[i].op \notin AfterDetection

C7_Witness ==
    /\ IdentifyRan
    /\ FaceCount(Query) = 2
    /\ raised.type = "TooManyFacesException"
    /\ Len(store) > 0

\* The status and error code the claim C8 gives an exception.
ClaimedCode(type) ==
    CASE type = "NoFaceException"        -> <<400, "NO_FACE">>
      [] type = "TooManyFacesException"  -> <<400, "TOO_MANY_FACES">>
      [] type = "UnknownPersonException" -> <<400, "UNKNOWN_PERSON">>
      [] type = "ValidationError"        -> <<400, "VALIDATION_ERROR">>
      [] type = "BadRequest"             -> <<400, "BAD_REQUEST">>
      [] OTHER                           -> <<500, "UNEXPECTED_ERROR">>

\* C8: each failure kind is answered 400 with its own error code, anything
\* else 500 UNEXPECTED_ERROR.
C8_ErrorMapping ==
    (op \in {"verify", "identify"} /\ raised # NoExc) =>
        <<response.status, response.error>> = ClaimedCode(raised.type)

EnrollRejected ==
    /\ op = "enroll_user"
    /\ raised.type \in {"NoFaceException", "TooManyFacesException"}

\* C9: an enroll_user call that ends with NoFace or TooManyFaces leaves no new
\* row in the table.
C9_NoPartialEnrollment == [][EnrollRejected' => store' = store]_vars

\* The first URL of the call that does not show exactly one face.
FirstRejected(us) ==
    CHOOSE i \in 1..Len(us) :
        /\ FaceCount(us[i]) # 1
        /\ \A j \in 1..(i - 1) : FaceCount(us[j]) = 1

\* C10: enroll_user handles the URLs in list order and stops at the first
\* one without exactly one face: the URLs before it are loaded, detected,
\* embedded and stored in turn, that one is loaded and detected, and nothing
\* is done for a later one.
C10_FailFast ==
    EnrollRejected =>
        LET i == FirstRejected(arg_urls)
        IN  /\ Len(calls) = 4 * (i - 1) + 2
            /\ \A j \in 1..(i - 1) :
                  /\ calls[4 * (j - 1) + 1].op = "read_image"
                  /\ calls[4 * (j - 1) + 2].op = "detect_faces"
                  /\ calls[4 * (j - 1) + 3].op = "get_embeddings"
                  /\ calls[4 * (j - 1) + 4].op = "session_add"
                  /\ \A c \in 1..4 : calls[4 * (j - 1) + c].urls = <<arg_urls[j]>>
            /\ calls[4 * (i - 1) + 1] = Call("read_image", <<arg_urls[i]>>, 0, "ok")
            /\ calls[4 * (i - 1) + 2].op = "detect_faces"
            /\ calls[4 * (i - 1) + 2].urls = <<arg_urls[i]>>

\* The call stops at a URL that a one-face URL follows.
C10_Witness ==
    /\ EnrollRejected
    /\ \E k \in 1..Len(arg_urls) :
          /\ k > FirstRejected(arg_urls)
          /\ FaceCount(arg_urls[k]) = 1 /\ Load(arg_urls[k]) = "ok"

----------------------------------------------------------------------------
(* Enrollment followed by identification, checked under SpecTable.         *)

\* The rows an enroll_user call that returned has left at the end of the
\* table: one per URL, in list order, each with the call's user_id.
EnrolledRows ==
    /\ Len(store) >= Len(arg_urls)
    /\ \A i \in 1..Len(arg_urls) :
          store[Len(store) - Len(arg_urls) + i] = Enrollment(Emb(arg_urls[i]), arg_user)

\* The user_manager answered the lookup of this call with an activated user.
UserActivated == \E i \in Called("get_user") : calls[i].res = "activated"

\* C11: a successful enroll_user(u, urls) stores one row of user u per URL, and
\* an _identify whose face is within the threshold of a row of u, and of no
\* row before it, returns u when u is activated.
C11_EnrollThenIdentify ==
    /\ (op = "enroll_user" /\ raised = NoExc) => EnrolledRows
    /\ (IdentifyRan /\ FaceFound /\ UserActivated) =>
          \A k \in 1..Len(store) : FirstMatch(k) => user.id = store[k].user_id

\* The same with the event dispatch left out of account: whenever _identify
\* returns, it returns the user of the first matching row.
C11_WhenDispatched ==
    /\ (op = "enroll_user" /\ raised = NoExc) => EnrolledRows
    /\ (IdentifyRan /\ FaceFound /\ UserActivated
            /\ \E i \in Called("dispatch") : calls[i].res = "ok") =>
          \A k \in 1..Len(store) : FirstMatch(k) => user.id = store[k].user_id

----------------------------------------------------------------------------
(* The embedding call of /verify, checked under SpecVerify.                *)

ShowsOneFace(url) == Load(url) = "ok" /\ FaceCount(url) = 1

\* The one-face images of the request, in input order.
OneFaceBatch == SelectSeq(arg_urls, ShowsOneFace)

\* C12: _verify makes one embedding call when an input image shows exactly
\* one face and none otherwise, and the call carries the tensors of the
\* one-face images, in input order, and no other.
C12_OneEmbeddingCall ==
    op = "verify" =>
        /\ Cardinality(Called("get_embeddings")) <= 1
        /\ OneFaceBatch # <<>> =>
              /\ Cardinality(Called("get_embeddings")) = 1
              /\ \A i \in Called("get_embeddings") : calls[i].urls = OneFaceBatch
        /\ OneFaceBatch = <<>> => Called("get_embeddings") = {}

\* The same for the requests _verify returns from.
C12_WhenReturned ==
    VerifyReturned =>
        /\ OneFaceBatch # <<>> =>
              /\ Cardinality(Called("get_embeddings")) = 1
              /\ \A i \in Called("get_embeddings") : calls[i].urls = OneFaceBatch
        /\ OneFaceBatch = <<>> => Called("get_embeddings") = {}

----------------------------------------------------------------------------
(* get_similarities, checked under SpecSimilarity.                         *)

\* C13: get_similarities returns one boolean per embedding of the batch; the
\* first is true, and entry i > 1 is true exactly when embedding i is at a
\* distance strictly below the threshold of the first embedding.
C13_Similarities ==
    op = "get_similarities" =>
        /\ Len(fn_ret) = Len(fn_arg)
        /\ fn_ret[1] = TRUE
        /\ \A i \in 2..Len(fn_arg) :
              LET d2 == SumSquares(fn_arg[1], fn_arg[i])
              IN  /\ d2 < THRESHOLD * THRESHOLD => fn_ret[i] = TRUE
                  /\ d2 >= THRESHOLD * THRESHOLD => fn_ret[i] = FALSE

\* A batch with an embedding below the threshold and one exactly at it.
C13_Witness ==
    /\ op = "get_similarities"
    /\ Len(fn_arg) = 3
    /\ SumSquares(fn_arg[1], fn_arg[2]) < THRESHOLD * THRESHOLD
    /\ SumSquares(fn_arg[1], fn_arg[3]) = THRESHOLD * THRESHOLD
    /\ fn_ret = <<TRUE, TRUE, FALSE>>

----------------------------------------------------------------------------
(* The identification event, checked under SpecTable.                      *)

\* The dispatch calls that went through: the events the sink has received.
Dispatched == {i \in Called("dispatch") : calls[i].res = "ok"}

\* C14: _identify dispatches one event, carrying the user it returns, when
\* it returns a user, and none when it fails; the dispatch comes after the
\* user's status has been found activated.
C14_EventOnSuccess ==
    op = "identify" =>
        /\ user # NoUser =>
              /\ Cardinality(Dispatched) = 1
              /\ \A i \in Dispatched : calls[i].n = user.id
        /\ raised # NoExc => Dispatched = {}
        /\ \A i \in Called("dispatch") :
              \E j \in Called("get_user") : j < i /\ calls[j].res = "activated"

\* A user is returned from a table of several rows.
C14_Witness ==
    /\ IdentifyRan
    /\ user # NoUser
    /\ Cardinality(Dispatched) = 1
    /\ Len(store) > 1

\* C15: when the face matches a row of an activated user, _identify returns
\* that user whether the dispatch succeeds or raises.
C15_DispatchFailureHarmless ==
    (IdentifyRan /\ FaceFound /\ UserActivated) =>
        \A k \in 1..Len(store) :
            FirstMatch(k) => raised = NoExc /\ user.id = store[k].user_id

----------------------------------------------------------------------------
(* The table as a frame, checked under SpecCall.                           *)

\* C16: no call changes or removes a row of the table; /verify and /identify
\* leave the table as it is, and enroll_user only appends rows of its
\* user_id.
C16_AppendOnly ==
    [][/\ op' \in {"verify", "identify"} => store' = store
       /\ Len(store') >= Len(store)
       /\ SubSeq(store', 1, Len(store)) = store
       /\ \A k \in (Len(store) + 1)..Len(store') :
             op' = "enroll_user" /\ store'[k].user_id = arg_user']_vars

\* enroll_user has added rows to a table that held rows of another user.
C16_Witness ==
    /\ op = "enroll_user"
    /\ raised = NoExc
    /\ Len(arg_urls) > 0
    /\ Len(store) > Len(arg_urls)
    /\ store[1].user_id # arg_user

----------------------------------------------------------------------------
(* The crop of the face, checked under SpecPrepare.                        *)

Degenerate(box) == box.width = 0 \/ box.height = 0

Inside(shape, box) ==
    /\ box.x >= 0 /\ box.y >= 0
    /\ box.x + box.width <= shape.width
    /\ box.y + box.height <= shape.height

C17_DegenerateFails ==
    op = "prepare" =>
        /\ Degenerate(fn_arg.box) => fn_ret.outcome = "cv2.error"
        /\ (~Degenerate(fn_arg.box) /\ Inside(fn_arg.shape, fn_arg.box)) =>
              /\ fn_ret.outcome = "tensor"
              /\ fn_ret.crop.rows = <<fn_arg.box.y, fn_arg.box.y + fn_arg.box.height>>
              /\ fn_ret.crop.cols = <<fn_arg.box.x, fn_arg.box.x + fn_arg.box.width>>

----------------------------------------------------------------------------
(* The body of a 500, and the cause of UnknownPerson, checked under        *)
(* SpecTable.                                                              *)

\* C18: the response to an exception the handler does not expect is the
\* generic 500, whose body carries nothing of the exception.
C18_GenericUnexpected ==
    (op = "identify" /\ raised # NoExc /\ raised.type \notin IdentifyExpected) =>
        response = Response(500, "UNEXPECTED_ERROR", "")

\* What the code does ensure: the status and the error code of an unexpected
\* exception are the generic ones.
C18_GenericCode ==
    (op = "identify" /\ raised # NoExc /\ raised.type \notin IdentifyExpected) =>
        response.status = 500 /\ response.error = "UNEXPECTED_ERROR"

\* C19: _identify raises UnknownPerson only when the table is empty or no row
\* is within the threshold of the query face.
C19_UnknownPersonCause ==
    (IdentifyRan /\ raised.type = "UnknownPersonException") =>
        /\ FaceFound
        /\ \A k \in 1..Len(store) : ~Matches(k)

\* What the code does ensure: UnknownPerson after a match comes of a
\* ValueError raised by get_user or by dispatch.
C19_UnknownPersonAfterMatch ==
    (IdentifyRan /\ raised.type = "UnknownPersonException") =>
        /\ FaceFound
        /\ (\E k \in 1..Len(store) : Matches(k)) =>
              \E i \in Called("get_user") \cup Called("dispatch") :
                  calls[i].res \in ValueErrorClasses

====
